---- MODULE Spec2Model ----
(***************************************************************************)
(* Model of the Uniform licensing connector integration layer:             *)
(*   src/soap_client.py            UniformSOAPClient (session lifecycle)   *)
(*   src/services/uniform_sync.py  sync_premises, lookup_licence, ...      *)
(*   src/database.py               import_premises (local SQLite cache)    *)
(*   src/routes/api.py             POST /uniform/test-connection           *)
(*                                                                         *)
(* Six specifications over the same state:                                 *)
(*   Spec         one thread calling sync_premises, lookups, logon/logoff  *)
(*   SpecClient   the methods of one UniformSOAPClient in any order        *)
(*   SpecCallers  threads sharing the module-level client of uniform_sync  *)
(*   SpecTest     requests to the connection test route                    *)
(*   SpecNormalize the serializers of the client applied to raw results    *)
(*   SpecStore    import_premises on the store with all its rows           *)
(*                                                                         *)
(* Strings built by the code (exception messages, error notes) are         *)
(* modelled as sequences of their parts, so that a note "names" a value    *)
(* exactly when that value is one of its parts.  Remote replies, the       *)
(* state of the bundled sample file and store failures are inputs drawn    *)
(* from small sets.                                                        *)
(***************************************************************************)
EXTENDS Integers, Sequences, FiniteSets, TLC

\* ---------------------------------------------------------------- bounds

\* longest bundled dataset (number of entries of sample_premises.json)
MaxLen == 2

\* most round trips a client instance has issued when an operation is started
MaxTrace == 4

\* deepest nesting of session scopes on one client
MaxDepth == 2

\* most premises rows without a premises_ref the store is followed to
MaxUnkeyed == 3

\* ------------------------------------------------------------ input sets

\* premisesRef values and businessName values of dataset entries
Refs == {"P1", "P2"}
Names == {"n1"}

\* "no row" in the premises table
NoRow == "no-row"

\* config.UNIFORM_WSDL_URL, as one token
WsdlUrl == "http://server/LicensingConnectorService_TEST/LicensingConnectorServices.asmx?WSDL"

\* wall-clock readings datetime.now().isoformat() can give
Times == {"now"}

\* "no exception pending": str() of every exception is a sequence of parts
NoExc == << >>

\* zeep could not download or parse the WSDL
WsdlFault == <<"wsdl unreachable">>

\* a remote call failed (zeep Fault / TransportError / timeout)
CallFault == <<"transport error">>

\* json.load / open failed on the bundled file
LoadFault == <<"sample file unreadable">>

\* sqlite3 raised inside import_premises
StoreFault == <<"sqlite error">>

\* None
None == "None"

\* the dataset entries: dicts in the sample-premises.json format
Entries == [premisesRef : Refs, businessName : Names]

RECURSIVE SeqsUpTo(_, _)
SeqsUpTo(S, n) ==
    IF n = 0 THEN {<< >>}
    ELSE LET shorter == SeqsUpTo(S, n - 1)
         IN  shorter \cup {Append(s, e) : s \in {t \in shorter : Len(t) = n - 1}, e \in S}

Datasets == SeqsUpTo(Entries, MaxLen)

\* states of services/data/sample_premises.json
FileStates ==
    {[state |-> "present", data |-> d] : d \in Datasets}
        \cup {[state |-> "absent", data |-> << >>],
              [state |-> "unreadable", data |-> << >>]}

\* replies of LogonToConnector: a fault, or a result object
LogonReplies ==
    {[fault |-> TRUE, LogonSuccessful |-> FALSE, Message |-> None]}
        \cup {[fault |-> FALSE, LogonSuccessful |-> s, Message |-> m] :
                s \in BOOLEAN, m \in {None, "msg"}}

\* replies of GetUniformDatabaseAliases: a fault, or a list of aliases
AliasReplies ==
    {[fault |-> TRUE, aliases |-> << >>],
     [fault |-> FALSE, aliases |-> << >>],
     [fault |-> FALSE, aliases |-> <<"LIVE">>]}

\* replies of GetConnectorLoginStatus: a fault, or a boolean
StatusReplies ==
    {[fault |-> TRUE, value |-> FALSE],
     [fault |-> FALSE, value |-> FALSE],
     [fault |-> FALSE, value |-> TRUE]}

\* True and False where the code also uses None
PyTrue == "True"
PyFalse == "False"

\* replies of CheckLIApplicationExistsByReferenceValue: a fault, a null
\* result, or a result object; a licence that does not exist is not valid
ExistsReplies ==
    {[fault |-> TRUE], [fault |-> FALSE, null |-> TRUE]}
        \cup {[fault |-> FALSE, null |-> FALSE, LicenceExists |-> PyTrue,
                LicenceValid |-> v] : v \in {PyTrue, PyFalse}}
        \cup {[fault |-> FALSE, null |-> FALSE, LicenceExists |-> PyFalse,
                LicenceValid |-> PyFalse]}

\* results of the body of a lookup scope: a record, None, or a fault
BodyResults ==
    {[exc |-> NoExc, value |-> "record"],
     [exc |-> NoExc, value |-> None],
     [exc |-> CallFault, value |-> None]}

\* ----------------------------------------------------------------- state

VARIABLES
    zeep_client,   \* UniformSOAPClient._client is not None
    logged_in,     \* UniformSOAPClient._logged_in
    db,            \* the shared sqlite3 connection: committed rows and the
                   \* connection's working view (committed + open transaction)
    op,            \* the top-level call in progress or last completed
    pc,            \* where that call is
    sample_file,   \* state of the bundled file during the call
    conn_status,   \* sync_premises: conn_status
    result,        \* sync_premises: result
    pending_exc,   \* exception raised by the with-body, then the one that
                   \* left the with statement
    body_ret,      \* value the with-body returned
    outcome,       \* how the last top-level call ended, and with what
    calls,         \* calls made by the call in progress / last completed
    written,       \* premises_ref of the rows this call wrote and committed
    sources_seen,  \* sources of the reports returned so far
    logoff_failed, \* some LogoffFromConnector call has failed so far
    trace,         \* network round trips a client instance has issued, in order
    scopes,        \* session scopes open on the client (nested use of session())
    env,           \* what the remote did during the last client call
    callers,       \* concurrent callers of uniform_sync: where each one is
    request,       \* POST /uniform/test-connection: the trimmed inputs
    test_client,   \* the UniformSOAPClient built for that request
    report,        \* the response of that request
    norm,          \* the last raw remote result normalized, and what came out
    store          \* the store as import_premises sees it, tables in full

vars == <<zeep_client, logged_in, db, op, pc, sample_file, conn_status, result,
          pending_exc, body_ret, outcome, calls, written, sources_seen,
          logoff_failed, trace, scopes, env, callers, request, test_client,
          report, norm, store>>

\* the state no step of the one-thread sync/lookup driver touches
driver_frame == <<trace, scopes, env, callers, request, test_client, report,
                  norm, store>>

client_vars == <<zeep_client, logged_in>>
sync_locals == <<sample_file, conn_status, result>>

\* the locals of sync_premises outside a call of it
NoFile == [state |-> "absent", data |-> << >>]
Unset == [unset |-> TRUE]

\* calls: logon, logoff = calls of the client methods; accepted = logons the
\* remote accepted; scopes = session scopes entered; remote_logoff =
\* LogoffFromConnector calls issued; load, import = calls of
\* _load_sample_data and import_premises
NoCalls == [logon |-> 0, accepted |-> 0, scopes |-> 0, logoff |-> 0,
            remote_logoff |-> 0, load |-> 0, import |-> 0]

EmptyTable == [r \in Refs |-> NoRow]

\* no reply of the remote seen, no value returned
NoAnswer == [none |-> TRUE]
NoValue == [none |-> TRUE]

\* no client call made yet
NoEnv == [call |-> "none"]

\* the threads (Streamlit sessions, Flask requests) that call uniform_sync
Callers == {1, 2}

\* a caller outside every uniform_sync call
Away == [pc |-> "idle", kind |-> "none", flag_at_call |-> "no call",
         outcome |-> "none", answer |-> NoAnswer, value |-> NoValue]

\* no test-connection request handled yet
NoRequest == [server |-> "", database_id |-> "", username |-> "", password |-> ""]
NoClient == [zc |-> FALSE, li |-> FALSE]
NoReport == [status |-> 0]

\* nothing normalized yet
NoNorm == [kind |-> "none"]

\* the store with its tables empty: premises rows by premises_ref, the number
\* of premises rows whose premises_ref is NULL, previous_actions rows by
\* premises_ref; committed and as the connection sees it
EmptyTables == [premises |-> [r \in Refs |-> NoRow], unkeyed |-> 0,
                actions |-> [r \in Refs |-> << >>]]
\* no import_premises call yet
NoImport == [done |-> FALSE, list |-> << >>, exc |-> NoExc, count |-> 0]

EmptyStore == [committed |-> EmptyTables, working |-> EmptyTables, last |-> NoImport]

Running == [kind |-> "running", exc |-> NoExc, value |-> None]

\* ---------------------------------------------------------- soap_client

\* _get_client that builds a new zeep client on every call
get_client_uncached(zc, wsdl_ok) ==
    IF wsdl_ok THEN [zc |-> TRUE, exc |-> NoExc, net |-> <<"wsdl">>]
    ELSE [zc |-> zc, exc |-> WsdlFault, net |-> <<"wsdl">>]

\* UniformSOAPClient._get_client: build the zeep client once, then reuse it.
\* net = the network round trips issued, in order ("wsdl" = Client(wsdl_url)
\* downloading and parsing the WSDL)
get_client(zc, wsdl_ok) ==
    IF zc THEN [zc |-> TRUE, exc |-> NoExc, net |-> << >>]
    ELSE IF wsdl_ok THEN [zc |-> TRUE, exc |-> NoExc, net |-> <<"wsdl">>]
    ELSE [zc |-> FALSE, exc |-> WsdlFault, net |-> <<"wsdl">>]

\* UniformSOAPClient.get_database_aliases
get_database_aliases(zc, wsdl_ok, reply) ==
    LET g == get_client(zc, wsdl_ok)
    IN  IF g.exc # NoExc
        THEN [zc |-> g.zc, exc |-> g.exc, aliases |-> << >>, net |-> g.net]
        ELSE IF reply.fault
        THEN [zc |-> g.zc, exc |-> CallFault, aliases |-> << >>,
              net |-> Append(g.net, "GetUniformDatabaseAliases")]
        ELSE [zc |-> g.zc, exc |-> NoExc, aliases |-> reply.aliases,
              net |-> Append(g.net, "GetUniformDatabaseAliases")]

\* test_connection without the try/except
test_connection_unguarded(zc, wsdl_ok, reply) ==
    LET a == get_database_aliases(zc, wsdl_ok, reply)
    IN  [zc |-> a.zc, exc |-> a.exc, net |-> a.net,
         status |-> [connected |-> TRUE, wsdl_url |-> WsdlUrl,
                     databases |-> a.aliases]]

\* UniformSOAPClient.test_connection
test_connection(zc, wsdl_ok, reply) ==
    LET a == get_database_aliases(zc, wsdl_ok, reply)
    IN  IF a.exc = NoExc
        THEN [zc |-> a.zc, exc |-> NoExc, net |-> a.net,
              status |-> [connected |-> TRUE, wsdl_url |-> WsdlUrl,
                          databases |-> a.aliases]]
        ELSE [zc |-> a.zc, exc |-> NoExc, net |-> a.net,
              status |-> [connected |-> FALSE, wsdl_url |-> WsdlUrl,
                          error |-> a.exc]]

\* x or default
Or(x, default) == IF x = None THEN default ELSE x

\* logon with a guard that refuses a client whose flag is still set
logon_guarded(zc, li, wsdl_ok, reply) ==
    LET g == get_client(zc, wsdl_ok)
    IN  IF li THEN [zc |-> zc, li |-> li, exc |-> <<"already logged in">>,
                    net |-> << >>]
        ELSE IF g.exc # NoExc
        THEN [zc |-> g.zc, li |-> li, exc |-> g.exc, net |-> g.net]
        ELSE IF reply.fault
        THEN [zc |-> g.zc, li |-> li, exc |-> CallFault,
              net |-> Append(g.net, "LogonToConnector")]
        ELSE IF reply.LogonSuccessful
        THEN [zc |-> g.zc, li |-> TRUE, exc |-> NoExc,
              net |-> Append(g.net, "LogonToConnector")]
        ELSE [zc |-> g.zc, li |-> FALSE,
              exc |-> <<"Uniform login failed: ", Or(reply.Message, "Login failed")>>,
              net |-> Append(g.net, "LogonToConnector")]

\* UniformSOAPClient.logon
logon(zc, li, wsdl_ok, reply) ==
    LET g == get_client(zc, wsdl_ok)
    IN  IF g.exc # NoExc
        THEN [zc |-> g.zc, li |-> li, exc |-> g.exc, net |-> g.net]
        ELSE IF reply.fault
        THEN [zc |-> g.zc, li |-> li, exc |-> CallFault,
              net |-> Append(g.net, "LogonToConnector")]
        ELSE IF reply.LogonSuccessful
        THEN [zc |-> g.zc, li |-> TRUE, exc |-> NoExc,
              net |-> Append(g.net, "LogonToConnector")]
        ELSE [zc |-> g.zc, li |-> FALSE,
              exc |-> <<"Uniform login failed: ", Or(reply.Message, "Login failed")>>,
              net |-> Append(g.net, "LogonToConnector")]

\* logoff without the try/except around the remote call
logoff_propagates(zc, li, wsdl_ok, remote_ok) ==
    IF ~li THEN [zc |-> zc, li |-> li, exc |-> NoExc, remote |-> 0, net |-> << >>]
    ELSE LET g == get_client(zc, wsdl_ok)
         IN  IF g.exc # NoExc
             THEN [zc |-> g.zc, li |-> li, exc |-> g.exc, remote |-> 0,
                   net |-> g.net]
             ELSE IF remote_ok
             THEN [zc |-> g.zc, li |-> FALSE, exc |-> NoExc, remote |-> 1,
                   net |-> Append(g.net, "LogoffFromConnector")]
             ELSE [zc |-> g.zc, li |-> li, exc |-> CallFault, remote |-> 1,
                   net |-> Append(g.net, "LogoffFromConnector")]

\* logoff clearing the flag in a finally clause
logoff_always_clears(zc, li, wsdl_ok, remote_ok) ==
    [logoff_propagates(zc, li, wsdl_ok, remote_ok) EXCEPT !.li = FALSE, !.exc = NoExc]

\* UniformSOAPClient.logoff; remote = 1 when LogoffFromConnector was issued
logoff(zc, li, wsdl_ok, remote_ok) ==
    IF ~li THEN [zc |-> zc, li |-> li, exc |-> NoExc, remote |-> 0, net |-> << >>]
    ELSE LET g == get_client(zc, wsdl_ok)
         IN  IF g.exc # NoExc
             THEN [zc |-> g.zc, li |-> li, exc |-> NoExc, remote |-> 0,
                   net |-> g.net]
             ELSE IF remote_ok
             THEN [zc |-> g.zc, li |-> FALSE, exc |-> NoExc, remote |-> 1,
                   net |-> Append(g.net, "LogoffFromConnector")]
             ELSE [zc |-> g.zc, li |-> li, exc |-> NoExc, remote |-> 1,
                   net |-> Append(g.net, "LogoffFromConnector")]

\* UniformSOAPClient.get_login_status: any exception is answered False
get_login_status(zc, wsdl_ok, reply) ==
    LET g == get_client(zc, wsdl_ok)
    IN  IF g.exc # NoExc THEN [zc |-> g.zc, value |-> FALSE, net |-> g.net]
        ELSE [zc |-> g.zc,
              value |-> IF reply.fault THEN FALSE ELSE reply.value,
              net |-> Append(g.net, "GetConnectorLoginStatus")]

\* the typed operations (get_application_by_reference, check_application_exists,
\* get_fee_lookup, search_parties, ...): get the zeep client, issue the one
\* remote call `name`, serialize its result; the logged-in flag is not read
typed_operation(zc, wsdl_ok, name, reply) ==
    LET g == get_client(zc, wsdl_ok)
    IN  IF g.exc # NoExc
        THEN [zc |-> g.zc, exc |-> g.exc, value |-> None, net |-> g.net]
        ELSE [zc |-> g.zc, exc |-> reply.exc, value |-> reply.value,
              net |-> Append(g.net, name)]

\* check_application_exists answering a failed call like a missing licence
check_application_exists_conflating(zc, wsdl_ok, reply) ==
    LET g == get_client(zc, wsdl_ok)
    IN  IF g.exc # NoExc
        THEN [zc |-> g.zc, exc |-> g.exc, value |-> NoValue, net |-> g.net]
        ELSE IF reply.fault \/ reply.null
        THEN [zc |-> g.zc, exc |-> NoExc,
              value |-> [licence_exists |-> PyFalse, licence_valid |-> PyFalse],
              net |-> Append(g.net, "CheckLIApplicationExistsByReferenceValue")]
        ELSE [zc |-> g.zc, exc |-> NoExc,
              value |-> [licence_exists |-> reply.LicenceExists,
                         licence_valid |-> reply.LicenceValid],
              net |-> Append(g.net, "CheckLIApplicationExistsByReferenceValue")]

\* UniformSOAPClient.check_application_exists
check_application_exists(zc, wsdl_ok, reply) ==
    LET g == get_client(zc, wsdl_ok)
    IN  IF g.exc # NoExc
        THEN [zc |-> g.zc, exc |-> g.exc, value |-> NoValue, net |-> g.net]
        ELSE IF reply.fault
        THEN [zc |-> g.zc, exc |-> CallFault, value |-> NoValue,
              net |-> Append(g.net, "CheckLIApplicationExistsByReferenceValue")]
        ELSE IF reply.null
        THEN [zc |-> g.zc, exc |-> NoExc,
              value |-> [licence_exists |-> PyFalse, licence_valid |-> PyFalse],
              net |-> Append(g.net, "CheckLIApplicationExistsByReferenceValue")]
        ELSE [zc |-> g.zc, exc |-> NoExc,
              value |-> [licence_exists |-> reply.LicenceExists,
                         licence_valid |-> reply.LicenceValid],
              net |-> Append(g.net, "CheckLIApplicationExistsByReferenceValue")]

\* ------------------------------------------------------------- database

\* INSERT OR REPLACE INTO premises, for the first n entries of the list
RECURSIVE upsert(_, _, _)
upsert(table, list, n) ==
    IF n = 0 THEN table
    ELSE LET p == list[n]
         IN  [upsert(table, list, n - 1) EXCEPT ![p.premisesRef] = p.businessName]

\* the premises_ref values of the first n entries
refs_of(list, n) == {list[i].premisesRef : i \in 1..n}

\* points where import_premises can fail on a list: 0 = nowhere, k = the
\* statement for entry k raises, Len + 1 = db.commit() raises
FailPoints(list) == 0..(Len(list) + 1)

\* database.import_premises
import_premises(d, list, fail_at) ==
    IF fail_at = 0
    THEN LET w == upsert(d.working, list, Len(list))
         IN  [db |-> [committed |-> w, working |-> w], exc |-> NoExc,
              count |-> Len(list), committed_refs |-> refs_of(list, Len(list))]
    ELSE [db |-> [committed |-> d.committed,
                  working |-> upsert(d.working, list, fail_at - 1)],
          exc |-> StoreFault, count |-> 0, committed_refs |-> {}]

\* --------------------------------------------------------- uniform_sync

\* uniform_sync._load_sample_data
load_sample_data(file) ==
    IF file.state = "absent" THEN [exc |-> NoExc, data |-> << >>]
    ELSE IF file.state = "unreadable" THEN [exc |-> LoadFault, data |-> << >>]
    ELSE [exc |-> NoExc, data |-> file.data]

\* dict.get(key, default)
Get(dict, key, default) == IF key \in DOMAIN dict THEN dict[key] ELSE default

\* the note of the unreachable branch
UnavailableNote(status) ==
    <<"Uniform SOAP connector at ", Get(status, "wsdl_url", None),
      " is not available: ">>
        \o Get(status, "error", <<"connection refused">>)
        \o <<". Using sample data.">>

\* the note of the except branch
SyncErrorNote(exc) == <<"SOAP sync error: ">> \o exc

NoDataNote == <<"No sample data found">>

Init ==
    /\ zeep_client = FALSE
    /\ logged_in = FALSE
    /\ db = [committed |-> EmptyTable, working |-> EmptyTable]
    /\ op = "none"
    /\ pc = "idle"
    /\ sample_file = NoFile
    /\ conn_status = Unset
    /\ result = Unset
    /\ pending_exc = NoExc
    /\ body_ret = None
    /\ outcome = [kind |-> "none", exc |-> NoExc, value |-> None]
    /\ calls = NoCalls
    /\ written = {}
    /\ sources_seen = {}
    /\ logoff_failed = FALSE
    /\ trace = << >>
    /\ scopes = 0
    /\ env = NoEnv
    /\ callers = [c \in Callers |-> Away]
    /\ request = NoRequest
    /\ test_client = NoClient
    /\ report = NoReport
    /\ norm = NoNorm
    /\ store = EmptyStore


\* ------------------------------------------------- sync_premises, by step

\* lines 86-88 (and 81-83): sample_data = _load_sample_data(); if sample_data:
\* result["count"] = database.import_premises(sample_data)
store_sample(res, d, file, fail_at) ==
    LET l == load_sample_data(file)
    IN  IF l.exc # NoExc
        THEN [exc |-> l.exc, result |-> res, db |-> d, refs |-> {}, imports |-> 0]
        ELSE IF l.data # << >>
        THEN LET i == import_premises(d, l.data, fail_at)
             IN  IF i.exc # NoExc
                 THEN [exc |-> i.exc, result |-> res, db |-> i.db, refs |-> {},
                       imports |-> 1]
                 ELSE [exc |-> NoExc, result |-> [res EXCEPT !.count = i.count],
                       db |-> i.db, refs |-> i.committed_refs, imports |-> 1]
        ELSE [exc |-> NoExc, result |-> res, db |-> d, refs |-> {}, imports |-> 0]

\* the body of the with-block without its else branch (lines 76-77)
sync_try_body_no_note(res, d, file, fail_at) ==
    LET s == store_sample(res, d, file, fail_at)
    IN  IF s.exc = NoExc /\ s.imports = 1
        THEN [s EXCEPT !.result.source = "sample-data-with-soap-available"]
        ELSE s

\* lines 72-77: the body of the with-block
sync_try_body(res, d, file, fail_at) ==
    LET l == load_sample_data(file)
    IN  IF l.exc # NoExc
        THEN [exc |-> l.exc, result |-> res, db |-> d, refs |-> {}, imports |-> 0]
        ELSE IF l.data # << >>
        THEN LET i == import_premises(d, l.data, fail_at)
             IN  IF i.exc # NoExc
                 THEN [exc |-> i.exc, result |-> res, db |-> i.db, refs |-> {},
                       imports |-> 1]
                 ELSE [exc |-> NoExc,
                       result |-> [res EXCEPT
                                     !.count = i.count,
                                     !.source = "sample-data-with-soap-available"],
                       db |-> i.db, refs |-> i.committed_refs, imports |-> 1]
        ELSE [exc |-> NoExc,
              result |-> [res EXCEPT !.errors = Append(@, NoDataNote)],
              db |-> d, refs |-> {}, imports |-> 0]

\* lines 79-83: the except branch, entered with the exception exc
sync_except(res, exc, d, file, fail_at) ==
    store_sample([res EXCEPT !.errors = Append(@, SyncErrorNote(exc)),
                             !.source = "sample-data-fallback"],
                 d, file, fail_at)

\* the else branch reading the cause under a key the probe does not set
sync_else_generic_note(res, status, d, file, fail_at) ==
    LET s == store_sample([res EXCEPT !.source = "sample-data"], d, file, fail_at)
    IN  IF s.exc # NoExc THEN s
        ELSE [s EXCEPT !.result.errors =
                Append(@, UnavailableNote([wsdl_url |-> status.wsdl_url]))]

\* the else branch without line 85
sync_else_no_source(res, status, d, file, fail_at) ==
    LET s == store_sample(res, d, file, fail_at)
    IN  IF s.exc # NoExc THEN s
        ELSE [s EXCEPT !.result.errors = Append(@, UnavailableNote(status))]

\* lines 85-93: the else branch (probe reported not connected); the note is
\* appended only when the lines before it did not raise
sync_else(res, status, d, file, fail_at) ==
    LET s == store_sample([res EXCEPT !.source = "sample-data"], d, file, fail_at)
    IN  IF s.exc # NoExc THEN s
        ELSE [s EXCEPT !.result.errors = Append(@, UnavailableNote(status))]

\* a session is opened whatever the probe reported
sync_branch_always_session(status) == "enter"

\* line 55: if conn_status.get("connected"): the branch the call takes
sync_branch(status) == IF Get(status, "connected", FALSE) THEN "enter" ELSE "else"

Returned(value) == [kind |-> "returned", exc |-> NoExc, value |-> value]
Raised(exc) == [kind |-> "raised", exc |-> exc, value |-> None]

\* lines 45-56: build the report, get the client, probe, pick the branch
sync_premises_begin ==
    /\ pc = "idle"
    /\ \E t \in Times, f \in FileStates, wsdl_ok \in BOOLEAN, reply \in AliasReplies :
          LET tc == test_connection(zeep_client, wsdl_ok, reply)
          IN  /\ op' = "sync"
              /\ sample_file' = f
              /\ zeep_client' = tc.zc
              /\ conn_status' = tc.status
              /\ result' = [source |-> IF tc.status.connected
                                       THEN "uniform-soap-live" ELSE None,
                            count |-> 0, timestamp |-> t, errors |-> << >>]
              /\ pc' = sync_branch(tc.status)
    /\ pending_exc' = NoExc
    /\ body_ret' = None
    /\ outcome' = Running
    /\ calls' = NoCalls
    /\ written' = {}
    /\ UNCHANGED driver_frame
    /\ UNCHANGED <<logged_in, db, sources_seen, logoff_failed>>

\* lines 72-77, inside the session scope
sync_premises_body ==
    /\ pc = "body"
    /\ op = "sync"
    /\ \E fail_at \in FailPoints(sample_file.data) :
          LET b == sync_try_body(result, db, sample_file, fail_at)
          IN  /\ result' = b.result
              /\ db' = b.db
              /\ pending_exc' = b.exc
              /\ written' = written \cup b.refs
              /\ calls' = [calls EXCEPT !.load = @ + 1, !.import = @ + b.imports]
    /\ pc' = "exit"
    /\ UNCHANGED driver_frame
    /\ UNCHANGED <<client_vars, op, sample_file, conn_status, body_ret, outcome,
                   sources_seen, logoff_failed>>

\* lines 78-83 and 95: the except branch, then the return
sync_premises_except ==
    /\ pc = "except"
    /\ op = "sync"
    /\ \E fail_at \in FailPoints(sample_file.data) :
          LET h == sync_except(result, pending_exc, db, sample_file, fail_at)
          IN  /\ result' = h.result
              /\ db' = h.db
              /\ written' = written \cup h.refs
              /\ calls' = [calls EXCEPT !.load = @ + 1, !.import = @ + h.imports]
              /\ outcome' = IF h.exc = NoExc THEN Returned("report") ELSE Raised(h.exc)
              /\ sources_seen' = IF h.exc = NoExc
                                 THEN sources_seen \cup {h.result.source}
                                 ELSE sources_seen
    /\ pc' = "idle"
    /\ UNCHANGED driver_frame
    /\ UNCHANGED <<client_vars, op, sample_file, conn_status, pending_exc, body_ret,
                   logoff_failed>>

\* lines 84-95: the else branch, then the return
sync_premises_else ==
    /\ pc = "else"
    /\ op = "sync"
    /\ \E fail_at \in FailPoints(sample_file.data) :
          LET e == sync_else(result, conn_status, db, sample_file, fail_at)
          IN  /\ result' = e.result
              /\ db' = e.db
              /\ written' = written \cup e.refs
              /\ calls' = [calls EXCEPT !.load = @ + 1, !.import = @ + e.imports]
              /\ outcome' = IF e.exc = NoExc THEN Returned("report") ELSE Raised(e.exc)
              /\ sources_seen' = IF e.exc = NoExc
                                 THEN sources_seen \cup {e.result.source}
                                 ELSE sources_seen
    /\ pc' = "idle"
    /\ UNCHANGED driver_frame
    /\ UNCHANGED <<client_vars, op, sample_file, conn_status, pending_exc, body_ret,
                   logoff_failed>>

\* ------------------------------------------- UniformSOAPClient.session

\* the remote accepts the credentials: the WSDL can be had and
\* LogonToConnector answers LogonSuccessful
Accepts(zc, wsdl_ok, reply) ==
    (zc \/ wsdl_ok) /\ ~reply.fault /\ reply.LogonSuccessful

\* session(): self.logon() before the try; an exception leaves the with
\* statement without running the finally clause
session_enter ==
    /\ pc = "enter"
    /\ \E wsdl_ok \in BOOLEAN, reply \in LogonReplies :
          LET r == logon(zeep_client, logged_in, wsdl_ok, reply)
          IN  /\ zeep_client' = r.zc
              /\ logged_in' = r.li
              /\ pending_exc' = r.exc
              /\ pc' = IF r.exc = NoExc THEN "body"
                       ELSE IF op = "sync" THEN "except" ELSE "idle"
              /\ outcome' = IF r.exc # NoExc /\ op # "sync"
                            THEN Raised(r.exc) ELSE outcome
              /\ calls' = [calls EXCEPT
                             !.logon = @ + 1,
                             !.accepted = IF Accepts(zeep_client, wsdl_ok, reply)
                                          THEN @ + 1 ELSE @,
                             !.scopes = IF r.exc = NoExc THEN @ + 1 ELSE @]
    /\ UNCHANGED driver_frame
    /\ UNCHANGED <<db, op, sync_locals, body_ret, written, sources_seen,
                   logoff_failed>>

\* session(): finally: self.logoff(); then the with statement ends with the
\* body's result or exception, unless logoff itself raised
session_exit ==
    /\ pc = "exit"
    /\ \E wsdl_ok \in BOOLEAN, remote_ok \in BOOLEAN :
          LET r == logoff(zeep_client, logged_in, wsdl_ok, remote_ok)
              exc == IF r.exc # NoExc THEN r.exc ELSE pending_exc
          IN  /\ zeep_client' = r.zc
              /\ logged_in' = r.li
              /\ calls' = [calls EXCEPT !.logoff = @ + 1,
                                        !.remote_logoff = @ + r.remote]
              /\ logoff_failed' = (logoff_failed \/ (r.remote = 1 /\ ~remote_ok))
              /\ pending_exc' = exc
              /\ IF op = "sync"
                 THEN /\ pc' = IF exc = NoExc THEN "idle" ELSE "except"
                      /\ outcome' = IF exc = NoExc THEN Returned("report") ELSE outcome
                      /\ sources_seen' = IF exc = NoExc
                                         THEN sources_seen \cup {result.source}
                                         ELSE sources_seen
                 ELSE /\ pc' = "idle"
                      /\ outcome' = IF exc = NoExc THEN Returned(body_ret)
                                    ELSE Raised(exc)
                      /\ UNCHANGED sources_seen
    /\ UNCHANGED driver_frame
    /\ UNCHANGED <<db, op, sync_locals, body_ret, written>>

\* --------------------------- lookup_licence and the other one-call scopes

\* uniform_sync.lookup_licence: client = _get_client(); with client.session():
lookup_licence_begin ==
    /\ pc = "idle"
    /\ op' = "lookup"
    /\ pc' = "enter"
    /\ pending_exc' = NoExc
    /\ body_ret' = None
    /\ outcome' = Running
    /\ calls' = NoCalls
    /\ written' = {}
    /\ sample_file' = NoFile
    /\ conn_status' = Unset
    /\ result' = Unset
    /\ UNCHANGED driver_frame
    /\ UNCHANGED <<client_vars, db, sources_seen, logoff_failed>>

\* return client.get_application_by_reference(reference_value)
lookup_licence_body ==
    /\ pc = "body"
    /\ op = "lookup"
    /\ \E b \in BodyResults :
          /\ pending_exc' = b.exc
          /\ body_ret' = b.value
    /\ pc' = "exit"
    /\ UNCHANGED driver_frame
    /\ UNCHANGED <<client_vars, db, op, sync_locals, outcome, calls, written,
                   sources_seen, logoff_failed>>

\* ------------------------------------------- logon and logoff on their own

\* client.logon() called outside a session scope
call_logon ==
    /\ pc = "idle"
    /\ \E wsdl_ok \in BOOLEAN, reply \in LogonReplies :
          LET r == logon(zeep_client, logged_in, wsdl_ok, reply)
          IN  /\ zeep_client' = r.zc
              /\ logged_in' = r.li
              /\ outcome' = IF r.exc = NoExc THEN Returned("True") ELSE Raised(r.exc)
              /\ calls' = [NoCalls EXCEPT
                             !.logon = 1,
                             !.accepted = IF Accepts(zeep_client, wsdl_ok, reply)
                                          THEN 1 ELSE 0]
    /\ op' = "logon"
    /\ pending_exc' = NoExc
    /\ body_ret' = None
    /\ written' = {}
    /\ sample_file' = NoFile
    /\ conn_status' = Unset
    /\ result' = Unset
    /\ UNCHANGED driver_frame
    /\ UNCHANGED <<db, pc, sources_seen, logoff_failed>>

\* client.logoff() called outside a session scope
call_logoff ==
    /\ pc = "idle"
    /\ \E wsdl_ok \in BOOLEAN, remote_ok \in BOOLEAN :
          LET r == logoff(zeep_client, logged_in, wsdl_ok, remote_ok)
          IN  /\ zeep_client' = r.zc
              /\ logged_in' = r.li
              /\ calls' = [NoCalls EXCEPT !.logoff = 1, !.remote_logoff = r.remote]
              /\ logoff_failed' = (logoff_failed \/ (r.remote = 1 /\ ~remote_ok))
              /\ outcome' = IF r.exc = NoExc THEN Returned(None) ELSE Raised(r.exc)
    /\ op' = "logoff"
    /\ pending_exc' = NoExc
    /\ body_ret' = None
    /\ written' = {}
    /\ sample_file' = NoFile
    /\ conn_status' = Unset
    /\ result' = Unset
    /\ UNCHANGED driver_frame
    /\ UNCHANGED <<db, pc, sources_seen>>

\* ------------------------------------- other writers of the shared store

\* database.create_inspection (complete_inspection, save_visit_sheet and
\* save_owner_report end the same way): one statement on another table, then
\* db.commit() on the shared connection, which commits whatever the open
\* transaction holds; when the statement raises, nothing is committed.  Of the
\* store the model keeps the premises table only.
create_inspection ==
    /\ pc = "idle"
    /\ \E ok \in BOOLEAN :
          /\ db' = IF ok THEN [committed |-> db.working, working |-> db.working]
                    ELSE db
          /\ outcome' = IF ok THEN Returned("inspection") ELSE Raised(StoreFault)
    /\ op' = "create_inspection"
    /\ pending_exc' = NoExc
    /\ body_ret' = None
    /\ calls' = NoCalls
    /\ written' = {}
    /\ sample_file' = NoFile
    /\ conn_status' = Unset
    /\ result' = Unset
    /\ UNCHANGED driver_frame
    /\ UNCHANGED <<client_vars, pc, sources_seen, logoff_failed>>

Next ==
    \/ create_inspection
    \/ sync_premises_begin
    \/ sync_premises_body
    \/ sync_premises_except
    \/ sync_premises_else
    \/ session_enter
    \/ session_exit
    \/ lookup_licence_begin
    \/ lookup_licence_body
    \/ call_logon
    \/ call_logoff

Spec == Init /\ [][Next]_vars

\* the one-call session scopes of uniform_sync, and the remote call of each
Kinds == {"lookup_licence", "check_licence_exists", "get_fee_lookup",
          "search_parties"}

RemoteCallOf(kind) ==
    CASE kind = "lookup_licence" -> "GetLIApplicationDetailsByReferenceValue"
      [] kind = "check_licence_exists" -> "CheckLIApplicationExistsByReferenceValue"
      [] kind = "get_fee_lookup" -> "GetLIApplicationFeeLookUp"
      [] kind = "search_parties" -> "GetPartyDetailsByClient"

\* is the name one of the round trips
Issued(net, name) == \E i \in 1..Len(net) : net[i] = name

\* ------------------------- one client instance, its methods in any order

client_frame == <<db, pc, sample_file, conn_status, result, pending_exc, body_ret,
                  calls, written, sources_seen, logoff_failed, callers, request,
                  test_client, report, norm, store>>

\* what a logon call meets: the remote accepts it, rejects it, or the call
\* fails on the way (no WSDL, or a fault of LogonToConnector)
LogonEvent(zc, wsdl_ok, reply) ==
    IF ~(zc \/ wsdl_ok) \/ reply.fault THEN "failed"
    ELSE IF reply.LogonSuccessful THEN "accepted" ELSE "rejected"

\* what a logoff call meets: nothing to do, the remote call completes, or the
\* call fails on the way
LogoffEvent(zc, li, wsdl_ok, remote_ok) ==
    IF ~li THEN "not logged in"
    ELSE IF (zc \/ wsdl_ok) /\ remote_ok THEN "completed" ELSE "failed"

\* client.logon()
client_logon ==
    /\ Len(trace) <= MaxTrace
    /\ \E wsdl_ok \in BOOLEAN, reply \in LogonReplies :
          LET r == logon(zeep_client, logged_in, wsdl_ok, reply)
          IN  /\ zeep_client' = r.zc
              /\ logged_in' = r.li
              /\ env' = [call |-> "logon", event |-> LogonEvent(zeep_client, wsdl_ok, reply)]
              /\ trace' = trace \o r.net
              /\ outcome' = IF r.exc = NoExc THEN Returned("True") ELSE Raised(r.exc)
    /\ op' = "logon"
    /\ UNCHANGED scopes
    /\ UNCHANGED client_frame

\* client.logoff()
client_logoff ==
    /\ Len(trace) <= MaxTrace
    /\ \E wsdl_ok \in BOOLEAN, remote_ok \in BOOLEAN :
          LET r == logoff(zeep_client, logged_in, wsdl_ok, remote_ok)
          IN  /\ zeep_client' = r.zc
              /\ logged_in' = r.li
              /\ env' = [call |-> "logoff", event |-> LogoffEvent(zeep_client, logged_in, wsdl_ok, remote_ok)]
              /\ trace' = trace \o r.net
              /\ outcome' = IF r.exc = NoExc THEN Returned(None) ELSE Raised(r.exc)
    /\ op' = "logoff"
    /\ UNCHANGED scopes
    /\ UNCHANGED client_frame

\* with client.session(): -- self.logon(); the scope is open when it returned
client_session_enter ==
    /\ Len(trace) <= MaxTrace
    /\ scopes < MaxDepth
    /\ \E wsdl_ok \in BOOLEAN, reply \in LogonReplies :
          LET r == logon(zeep_client, logged_in, wsdl_ok, reply)
          IN  /\ zeep_client' = r.zc
              /\ logged_in' = r.li
              /\ env' = [call |-> "logon", event |-> LogonEvent(zeep_client, wsdl_ok, reply)]
              /\ trace' = trace \o r.net
              /\ scopes' = IF r.exc = NoExc THEN scopes + 1 ELSE scopes
              /\ outcome' = IF r.exc = NoExc THEN Running ELSE Raised(r.exc)
    /\ op' = "session_enter"
    /\ UNCHANGED client_frame

\* the innermost open scope ends -- finally: self.logoff()
client_session_exit ==
    /\ scopes > 0
    /\ \E wsdl_ok \in BOOLEAN, remote_ok \in BOOLEAN :
          LET r == logoff(zeep_client, logged_in, wsdl_ok, remote_ok)
          IN  /\ zeep_client' = r.zc
              /\ logged_in' = r.li
              /\ env' = [call |-> "logoff", event |-> LogoffEvent(zeep_client, logged_in, wsdl_ok, remote_ok)]
              /\ trace' = trace \o r.net
              /\ outcome' = IF r.exc = NoExc THEN Returned(None) ELSE Raised(r.exc)
    /\ scopes' = scopes - 1
    /\ op' = "session_exit"
    /\ UNCHANGED client_frame

\* client.test_connection(); env keeps what the remote did during the call
client_test_connection ==
    /\ Len(trace) <= MaxTrace
    /\ \E wsdl_ok \in BOOLEAN, reply \in AliasReplies :
          LET tc == test_connection(zeep_client, wsdl_ok, reply)
          IN  /\ zeep_client' = tc.zc
              /\ trace' = trace \o tc.net
              /\ outcome' = IF tc.exc = NoExc THEN Returned(tc.status)
                            ELSE Raised(tc.exc)
              /\ env' = [call |-> "test_connection", had_client |-> zeep_client,
                         wsdl_ok |-> wsdl_ok, reply |-> reply]
    /\ op' = "test_connection"
    /\ UNCHANGED <<logged_in, scopes>>
    /\ UNCHANGED client_frame

\* client.get_login_status()
client_get_login_status ==
    /\ Len(trace) <= MaxTrace
    /\ \E wsdl_ok \in BOOLEAN, reply \in StatusReplies :
          LET r == get_login_status(zeep_client, wsdl_ok, reply)
          IN  /\ zeep_client' = r.zc
              /\ trace' = trace \o r.net
              /\ outcome' = Returned(r.value)
    /\ op' = "get_login_status"
    /\ env' = [call |-> "get_login_status"]
    /\ UNCHANGED <<logged_in, scopes>>
    /\ UNCHANGED client_frame

\* client.get_application_by_reference(...) and the other typed operations
client_typed_operation ==
    /\ Len(trace) <= MaxTrace
    /\ \E wsdl_ok \in BOOLEAN, reply \in BodyResults :
          LET t == typed_operation(zeep_client, wsdl_ok,
                                   RemoteCallOf("lookup_licence"), reply)
          IN  /\ zeep_client' = t.zc
              /\ trace' = trace \o t.net
              /\ outcome' = IF t.exc = NoExc THEN Returned(t.value)
                            ELSE Raised(t.exc)
    /\ op' = "typed_operation"
    /\ env' = [call |-> "typed_operation"]
    /\ UNCHANGED <<logged_in, scopes>>
    /\ UNCHANGED client_frame

NextClient ==
    \/ client_logon
    \/ client_logoff
    \/ client_session_enter
    \/ client_session_exit
    \/ client_test_connection
    \/ client_get_login_status
    \/ client_typed_operation

\* any sequence of operations on one UniformSOAPClient
SpecClient == Init /\ [][NextClient]_vars

\* ------------------------------ concurrent callers of uniform_sync

\* the state no caller step touches
callers_frame == <<db, op, pc, sample_file, conn_status, result, pending_exc,
                   body_ret, outcome, calls, written, sources_seen, logoff_failed,
                   trace, scopes, env, request, test_client, report, norm,
                   store>>

\* caller c enters lookup_licence, ...: client = _get_client() is the module's
\* one UniformSOAPClient, whoever calls
caller_begin(c) ==
    /\ callers[c].pc = "idle"
    /\ \E k \in Kinds :
          callers' = [callers EXCEPT ![c] = [pc |-> "enter", kind |-> k,
                                             flag_at_call |-> "no call",
                                             outcome |-> "running",
                                             answer |-> NoAnswer,
                                             value |-> NoValue]]
    /\ UNCHANGED <<zeep_client, logged_in>>
    /\ UNCHANGED callers_frame

\* with client.session(): self.logon() on the shared client
caller_session_enter(c) ==
    /\ callers[c].pc = "enter"
    /\ \E wsdl_ok \in BOOLEAN, reply \in LogonReplies :
          LET r == logon(zeep_client, logged_in, wsdl_ok, reply)
          IN  /\ zeep_client' = r.zc
              /\ logged_in' = r.li
              /\ callers' = [callers EXCEPT
                               ![c].pc = IF r.exc = NoExc THEN "body" ELSE "idle",
                               ![c].outcome = IF r.exc = NoExc THEN @ ELSE "raised"]
    /\ UNCHANGED callers_frame

\* the replies the remote can give to the body's call
BodyRepliesOf(kind) ==
    IF kind = "check_licence_exists" THEN ExistsReplies ELSE BodyResults

\* the client method each session-scoped function calls
body_call(kind, zc, wsdl_ok, reply) ==
    IF kind = "check_licence_exists"
    THEN check_application_exists(zc, wsdl_ok, reply)
    ELSE typed_operation(zc, wsdl_ok, RemoteCallOf(kind), reply)

\* return client.<typed operation>(...): flag_at_call records the value of
\* _logged_in when the remote call was issued, answer what the remote replied
caller_body(c) ==
    /\ callers[c].pc = "body"
    /\ \E wsdl_ok \in BOOLEAN, reply \in BodyRepliesOf(callers[c].kind) :
          LET t == body_call(callers[c].kind, zeep_client, wsdl_ok, reply)
              issued == Issued(t.net, RemoteCallOf(callers[c].kind))
          IN  /\ zeep_client' = t.zc
              /\ callers' = [callers EXCEPT
                               ![c].pc = "exit",
                               ![c].flag_at_call =
                                   IF ~issued THEN @
                                   ELSE IF logged_in THEN "logged in"
                                   ELSE "logged out",
                               ![c].answer = IF issued THEN reply ELSE @,
                               ![c].value = IF t.exc = NoExc THEN [v |-> t.value]
                                            ELSE NoValue,
                               ![c].outcome = IF t.exc = NoExc THEN "returned"
                                              ELSE "raised"]
    /\ UNCHANGED logged_in
    /\ UNCHANGED callers_frame

\* finally: self.logoff() on the shared client; the with statement then ends
\* with the body's value or exception (logoff raises nothing)
caller_session_exit(c) ==
    /\ callers[c].pc = "exit"
    /\ \E wsdl_ok \in BOOLEAN, remote_ok \in BOOLEAN :
          LET r == logoff(zeep_client, logged_in, wsdl_ok, remote_ok)
          IN  /\ zeep_client' = r.zc
              /\ logged_in' = r.li
    /\ callers' = [callers EXCEPT ![c].pc = "idle"]
    /\ UNCHANGED callers_frame

NextCallers ==
    \/ \E c \in Callers : caller_begin(c)
    \/ \E c \in Callers : caller_session_enter(c)
    \/ \E c \in Callers : caller_body(c)
    \/ \E c \in Callers : caller_session_exit(c)

\* threads calling the session-scoped operations of uniform_sync at will
SpecCallers == Init /\ [][NextCallers]_vars

\* ------------------------------------ POST /uniform/test-connection

\* values of a field of the JSON body: absent, blank, a value, a padded
\* value, another value
RawTexts == {None, "  ", "x", " x ", "y"}

\* (data.get(key) or "").strip()
Trimmed(raw) ==
    CASE raw = None -> ""
      [] raw = "  " -> ""
      [] raw = " x " -> "x"
      [] OTHER -> raw

PyBool(b) == IF b THEN PyTrue ELSE PyFalse

\* str(len(aliases))
CountText(n) == CASE n = 0 -> "0" [] n = 1 -> "1" [] OTHER -> "many"

\* the f-string of lines 225-229, state_switch left at its default
WsdlUrlOf(server) ==
    <<"http://", server, "/LicensingConnectorService", "_TEST",
      "/LicensingConnectorServices.asmx?WSDL">>

StepNames == <<"WSDL Reachability", "Database Aliases", "Authentication">>

\* the round trips of a test that runs every step, in order
TestOrder == <<"wsdl", "GetUniformDatabaseAliases", "LogonToConnector",
               "GetConnectorLoginStatus", "LogoffFromConnector">>

\* if database_id and username and password
credentials_given(req) ==
    req.database_id # "" /\ req.username # "" /\ req.password # ""

\* results["success"] = False; return jsonify(results) -- or the next step
after_step_continue(failed, next) == next
after_step(failed, next) == IF failed THEN "idle" ELSE next

\* all(s["passed"] is True for s in steps): a skipped step counts as failed
AllPassedStrict(steps) ==
    \A i \in 1..Len(steps) : steps[i].passed = PyTrue

\* all(s["passed"] is True for s in steps if s["passed"] is not None)
AllPassed(steps) ==
    \A i \in 1..Len(steps) : (steps[i].passed # None) => steps[i].passed = PyTrue

\* the response body once "success" is set
WithSuccess(body, v) ==
    [wsdl_url |-> body.wsdl_url, steps |-> body.steps, success |-> v]

\* lines 245-259: step 1
step_wsdl(cl, url, wsdl_ok) ==
    LET g == get_client(cl.zc, wsdl_ok)
    IN  [client |-> [cl EXCEPT !.zc = g.zc], net |-> g.net,
         failed |-> g.exc # NoExc,
         entry |-> IF g.exc = NoExc
                   THEN [name |-> "WSDL Reachability", passed |-> PyTrue,
                         detail |-> <<"Successfully downloaded and parsed WSDL from ">>
                                       \o url]
                   ELSE [name |-> "WSDL Reachability", passed |-> PyFalse,
                         detail |-> g.exc]]

\* lines 261-277: step 2
step_aliases(cl, wsdl_ok, reply) ==
    LET a == get_database_aliases(cl.zc, wsdl_ok, reply)
    IN  [client |-> [cl EXCEPT !.zc = a.zc], net |-> a.net,
         failed |-> a.exc # NoExc,
         entry |-> IF a.exc = NoExc
                   THEN [name |-> "Database Aliases", passed |-> PyTrue,
                         detail |-> <<"Found ", CountText(Len(a.aliases)),
                                      " database alias(es)">>,
                         aliases |-> a.aliases]
                   ELSE [name |-> "Database Aliases", passed |-> PyFalse,
                         detail |-> a.exc]]

\* lines 279-306: step 3
step_auth(cl, req, wsdl_ok, logon_reply, status_reply, logoff_ok) ==
    IF credentials_given(req)
    THEN LET l == logon(cl.zc, cl.li, wsdl_ok, logon_reply)
             st == get_login_status(l.zc, wsdl_ok, status_reply)
             o == logoff(st.zc, l.li, wsdl_ok, logoff_ok)
         IN  IF l.exc # NoExc
             THEN [client |-> [zc |-> l.zc, li |-> l.li], net |-> l.net,
                   failed |-> TRUE,
                   entry |-> [name |-> "Authentication", passed |-> PyFalse,
                              detail |-> l.exc]]
             ELSE [client |-> [zc |-> o.zc, li |-> o.li],
                   net |-> l.net \o st.net \o o.net,
                   failed |-> FALSE,
                   entry |-> [name |-> "Authentication", passed |-> PyTrue,
                              detail |-> <<"Login successful. Status: ",
                                           PyBool(st.value)>>]]
    ELSE [client |-> cl, net |-> << >>, failed |-> FALSE,
          entry |-> [name |-> "Authentication", passed |-> None,
                     detail |-> <<"Skipped - provide Database ID, Username & Password to test login">>]]

test_frame == <<zeep_client, logged_in, db, sample_file, conn_status, result,
                pending_exc, body_ret, outcome, calls, written, sources_seen,
                logoff_failed, scopes, env, callers, norm, store>>

\* lines 215-243: read and trim the inputs, answer 400 without a server,
\* else build the URL, the results and a client of its own
test_soap_connection_begin ==
    /\ pc = "idle"
    /\ \E server \in RawTexts, database_id \in RawTexts, username \in RawTexts,
          password \in RawTexts :
          /\ request' = [server |-> Trimmed(server),
                         database_id |-> Trimmed(database_id),
                         username |-> Trimmed(username),
                         password |-> Trimmed(password)]
          /\ IF Trimmed(server) = ""
             THEN /\ report' = [status |-> 400,
                                body |-> [success |-> FALSE,
                                          error |-> "Server hostname is required"]]
                  /\ pc' = "idle"
             ELSE /\ report' = [status |-> 0,
                                body |-> [wsdl_url |-> WsdlUrlOf(Trimmed(server)),
                                          steps |-> << >>]]
                  /\ pc' = "step1"
    /\ test_client' = NoClient
    /\ trace' = << >>
    /\ op' = "test"
    /\ UNCHANGED test_frame

test_soap_connection_step1 ==
    /\ pc = "step1"
    /\ op = "test"
    /\ \E wsdl_ok \in BOOLEAN :
          LET r == step_wsdl(test_client, report.body.wsdl_url, wsdl_ok)
              steps == Append(report.body.steps, r.entry)
              body == [report.body EXCEPT !.steps = steps]
          IN  /\ test_client' = r.client
              /\ trace' = trace \o r.net
              /\ pc' = after_step(r.failed, "step2")
              /\ report' = IF pc' = "idle"
                           THEN [status |-> 200, body |-> WithSuccess(body, FALSE)]
                           ELSE [status |-> 0, body |-> body]
    /\ UNCHANGED <<op, request>>
    /\ UNCHANGED test_frame

test_soap_connection_step2 ==
    /\ pc = "step2"
    /\ op = "test"
    /\ \E wsdl_ok \in BOOLEAN, reply \in AliasReplies :
          LET r == step_aliases(test_client, wsdl_ok, reply)
              steps == Append(report.body.steps, r.entry)
              body == [report.body EXCEPT !.steps = steps]
          IN  /\ test_client' = r.client
              /\ trace' = trace \o r.net
              /\ pc' = after_step(r.failed, "step3")
              /\ report' = IF pc' = "idle"
                           THEN [status |-> 200, body |-> WithSuccess(body, FALSE)]
                           ELSE [status |-> 0, body |-> body]
    /\ UNCHANGED <<op, request>>
    /\ UNCHANGED test_frame

\* step 3, then lines 308-312
test_soap_connection_step3 ==
    /\ pc = "step3"
    /\ op = "test"
    /\ \E wsdl_ok \in BOOLEAN, logon_reply \in LogonReplies,
          status_reply \in StatusReplies, logoff_ok \in BOOLEAN :
          LET r == step_auth(test_client, request, wsdl_ok, logon_reply,
                             status_reply, logoff_ok)
              steps == Append(report.body.steps, r.entry)
              body == [report.body EXCEPT !.steps = steps]
          IN  /\ test_client' = r.client
              /\ trace' = trace \o r.net
              /\ report' = [status |-> 200,
                            body |-> WithSuccess(body, IF r.failed THEN FALSE
                                                       ELSE AllPassed(steps))]
    /\ pc' = "idle"
    /\ UNCHANGED <<op, request>>
    /\ UNCHANGED test_frame

NextTest ==
    \/ test_soap_connection_begin
    \/ test_soap_connection_step1
    \/ test_soap_connection_step2
    \/ test_soap_connection_step3

\* requests to POST /uniform/test-connection, one after the other
SpecTest == Init /\ [][NextTest]_vars

\* ------------------------------------- normalizing the remote's results

\* Raw results are zeep objects: an object is a record of its fields, a null
\* object is Null, a scalar field holds a value or None, a list is a record
\* with its items.  Of the fields a serializer copies as they are the model
\* keeps the first ones of each object; every converted field is kept.
Null == [null |-> TRUE]

\* None returned where a record could be
NoRecord == [none |-> TRUE]

\* values of a text field, a decimal field and a date field
Texts == {None, "t"}
Decimals == {None, "0", "5"}
Dates == {None, "date(2024, 1, 1)"}

\* float(x) of a decimal that is not None
Float(x) == CASE x = "0" -> "0.0" [] x = "5" -> "5.0"

\* float(None)
FloatFault == <<"float() argument must be a string or a real number, not 'NoneType'">>

\* str(x) of a date
StrOf(x) == CASE x = "date(2024, 1, 1)" -> "2024-01-01"

\* bool(x) of a scalar: None and zero are false
Truthy(x) == x \notin {None, "0", ""}

\* x or []
ListOf(x) == IF x = Null THEN << >> ELSE x.items

\* the lists of at most one item: null, empty, one item
Lists(S) == {Null, [items |-> << >>]} \cup {[items |-> <<e>>] : e \in S}

\* two dicts in one
Merge(f, g) ==
    [k \in DOMAIN f \cup DOMAIN g |-> IF k \in DOMAIN g THEN g[k] ELSE f[k]]

RawContactDetails ==
    {Null} \cup {[ContactDetail |-> l] :
                    l \in Lists([ContactTypeCode : Texts, ContactAddress : Texts])}

RawApplicantObjects ==
    [KeyValue : Texts, FullName : Texts, DOB : Dates,
     ContactDetails : RawContactDetails]

RawApplicants == {Null} \cup {[Applicant |-> l] : l \in Lists(RawApplicantObjects)}

RawIdentifications ==
    {Null} \cup [ApplicationKeyValue : Texts, ReferenceValue : Texts]

RawLocations == {Null} \cup [UPRN : Texts, Address : Texts]

RawLicences ==
    {Null} \cup [LicenceType : Texts, DateReceived : Dates, TotalCost : Decimals]

RawActivities ==
    {Null} \cup {[Activity |-> l] :
                    l \in Lists([ActivityType : Texts, StartDate : Dates,
                                 Capacity : Decimals])}

RawPayments ==
    {Null} \cup {[Payment |-> l] :
                    l \in Lists([ReceiptNumber : Texts, PaymentDue : Decimals,
                                 Paid : Decimals, PaymentDate : Dates])}

RawXtras ==
    {Null} \cup {[LiXtra |-> l] : l \in Lists([FieldName : Texts, RowNo : Decimals])}

\* the application with nothing in it, and one with everything
EmptyApplication ==
    [ApplicationIdentification |-> Null, Applicants |-> Null,
     SubmittedSiteLocation |-> Null, ApplicationType |-> None, Licence |-> Null,
     Activities |-> Null, Payments |-> Null, LiXtras |-> Null]

FullApplication ==
    [ApplicationIdentification |->
        [ApplicationKeyValue |-> "t", ReferenceValue |-> "t"],
     Applicants |->
        [Applicant |-> [items |-> <<
            [KeyValue |-> "t", FullName |-> "t", DOB |-> "date(2024, 1, 1)",
             ContactDetails |-> [ContactDetail |-> [items |-> <<
                 [ContactTypeCode |-> "t", ContactAddress |-> "t"]>>]]]>>]],
     SubmittedSiteLocation |-> [UPRN |-> "t", Address |-> "t"],
     ApplicationType |-> "t",
     Licence |-> [LicenceType |-> "t", DateReceived |-> "date(2024, 1, 1)",
                  TotalCost |-> "5"],
     Activities |-> [Activity |-> [items |-> <<
         [ActivityType |-> "t", StartDate |-> "date(2024, 1, 1)",
          Capacity |-> "5"]>>]],
     Payments |-> [Payment |-> [items |-> <<
         [ReceiptNumber |-> "t", PaymentDue |-> "5", Paid |-> "5",
          PaymentDate |-> "date(2024, 1, 1)"]>>]],
     LiXtras |-> [LiXtra |-> [items |-> <<[FieldName |-> "t", RowNo |-> "5"]>>]]]

\* raw applications: null, and the empty and the full application with one
\* part of it varied over all its values
RawApplications ==
    {Null}
        \cup {[b EXCEPT !.ApplicationIdentification = x] :
                 b \in {EmptyApplication, FullApplication}, x \in RawIdentifications}
        \cup {[b EXCEPT !.Applicants = x] :
                 b \in {EmptyApplication, FullApplication}, x \in RawApplicants}
        \cup {[b EXCEPT !.SubmittedSiteLocation = x] :
                 b \in {EmptyApplication, FullApplication}, x \in RawLocations}
        \cup {[b EXCEPT !.ApplicationType = x] :
                 b \in {EmptyApplication, FullApplication}, x \in Texts}
        \cup {[b EXCEPT !.Licence = x] :
                 b \in {EmptyApplication, FullApplication}, x \in RawLicences}
        \cup {[b EXCEPT !.Activities = x] :
                 b \in {EmptyApplication, FullApplication}, x \in RawActivities}
        \cup {[b EXCEPT !.Payments = x] :
                 b \in {EmptyApplication, FullApplication}, x \in RawPayments}
        \cup {[b EXCEPT !.LiXtras = x] :
                 b \in {EmptyApplication, FullApplication}, x \in RawXtras}

RawFeeSchedules ==
    {Null} \cup
    [LicenceTypeCode : Texts, LicenceTypeCodeText : Texts, ValidationDate : Dates,
     LicenceFees : {Null} \cup {[LicenceFeeDetail |-> l] :
                                   l \in Lists([FeeType : Texts, Fee : Decimals])}]

RawCodeLists ==
    {Null} \cup
    [ListName : Texts, ListText : Texts,
     CodeList : {Null} \cup {[CnCode |-> l] :
                                l \in Lists([CodeValue : Texts, CodeText : Texts,
                                             ExtraText : Texts])}]

RawAppIds == {Null} \cup [ApplicationKeyValue : Texts, ReferenceValue : Texts]

RawParties ==
    {Merge(a, [LiPartyTypeCode |-> c, Licence |-> l]) :
        a \in RawApplicantObjects, c \in Texts,
        l \in {Null} \cup [LicenceType : Texts, FromDate : Dates]}

\* UniformSOAPClient._serialize_applicant
serialize_applicant(a) ==
    LET items == IF a.ContactDetails # Null
                 THEN ListOf(a.ContactDetails.ContactDetail) ELSE << >>
    IN  [key_value |-> a.KeyValue,
         full_name |-> a.FullName,
         dob |-> IF Truthy(a.DOB) THEN StrOf(a.DOB) ELSE None,
         contact_details |->
            [i \in 1..Len(items) |->
                [type_code |-> items[i].ContactTypeCode,
                 address |-> items[i].ContactAddress]]]

\* UniformSOAPClient._serialize_party
serialize_party(party) ==
    Merge(Merge(serialize_applicant(party),
                [li_party_type_code |-> party.LiPartyTypeCode]),
          IF party.Licence # Null
          THEN [licence |->
                   [licence_type |-> party.Licence.LicenceType,
                    from_date |-> IF Truthy(party.Licence.FromDate)
                                  THEN StrOf(party.Licence.FromDate) ELSE None]]
          ELSE << >>)

\* the parts of the dict _serialize_application builds, in its order
application_identification(app) ==
    IF app.ApplicationIdentification # Null
    THEN [application_identification |->
             [key_value |-> app.ApplicationIdentification.ApplicationKeyValue,
              reference_value |-> app.ApplicationIdentification.ReferenceValue]]
    ELSE << >>

applicants(app) ==
    IF app.Applicants # Null
    THEN LET items == ListOf(app.Applicants.Applicant)
         IN  [applicants |-> [i \in 1..Len(items) |-> serialize_applicant(items[i])]]
    ELSE << >>

site_location(app) ==
    IF app.SubmittedSiteLocation # Null
    THEN [site_location |-> [uprn |-> app.SubmittedSiteLocation.UPRN,
                             address |-> app.SubmittedSiteLocation.Address]]
    ELSE << >>

licence(app) ==
    IF app.Licence # Null
    THEN [licence |->
             [licence_type |-> app.Licence.LicenceType,
              date_received |-> IF Truthy(app.Licence.DateReceived)
                                THEN StrOf(app.Licence.DateReceived) ELSE None,
              total_cost |-> IF app.Licence.TotalCost # None
                             THEN Float(app.Licence.TotalCost) ELSE None]]
    ELSE << >>

activities(app) ==
    IF app.Activities # Null
    THEN LET items == ListOf(app.Activities.Activity)
         IN  [activities |->
                 [i \in 1..Len(items) |->
                     [activity_type |-> items[i].ActivityType,
                      start_date |-> IF Truthy(items[i].StartDate)
                                     THEN StrOf(items[i].StartDate) ELSE None,
                      capacity |-> IF Truthy(items[i].Capacity)
                                   THEN Float(items[i].Capacity) ELSE None]]]
    ELSE << >>

payments(app) ==
    IF app.Payments # Null
    THEN LET items == ListOf(app.Payments.Payment)
         IN  [payments |->
                 [i \in 1..Len(items) |->
                     [receipt_number |-> items[i].ReceiptNumber,
                      payment_due |-> IF items[i].PaymentDue # None
                                      THEN Float(items[i].PaymentDue) ELSE None,
                      paid |-> IF items[i].Paid # None
                               THEN Float(items[i].Paid) ELSE None,
                      payment_date |-> IF Truthy(items[i].PaymentDate)
                                       THEN StrOf(items[i].PaymentDate) ELSE None]]]
    ELSE << >>

li_xtras(app) ==
    IF app.LiXtras # Null
    THEN LET items == ListOf(app.LiXtras.LiXtra)
         IN  [li_xtras |->
                 [i \in 1..Len(items) |->
                     [field_name |-> items[i].FieldName,
                      row_no |-> IF items[i].RowNo # None
                                 THEN Float(items[i].RowNo) ELSE None]]]
    ELSE << >>

\* UniformSOAPClient._serialize_application
serialize_application(app) ==
    IF app = Null THEN [exc |-> NoExc, value |-> NoRecord]
    ELSE [exc |-> NoExc,
          value |->
             Merge(Merge(Merge(Merge(Merge(Merge(Merge(
                 application_identification(app),
                 applicants(app)),
                 site_location(app)),
                 [application_type |-> app.ApplicationType]),
                 licence(app)),
                 activities(app)),
                 payments(app)),
                 li_xtras(app))]

\* get_fee_lookup, lines 193-205: the remote call's answer made a dict
fee_lookup_record(raw) ==
    IF raw = Null THEN [exc |-> NoExc, value |-> NoRecord]
    ELSE LET items == IF raw.LicenceFees # Null
                      THEN ListOf(raw.LicenceFees.LicenceFeeDetail) ELSE << >>
         IN  IF \E i \in 1..Len(items) : items[i].Fee = None
             THEN [exc |-> FloatFault, value |-> NoRecord]
             ELSE [exc |-> NoExc,
                   value |->
                      [licence_type_code |-> raw.LicenceTypeCode,
                       licence_type_text |-> raw.LicenceTypeCodeText,
                       fees |-> [i \in 1..Len(items) |->
                                    [fee_type |-> items[i].FeeType,
                                     fee |-> Float(items[i].Fee)]],
                       validation_date |-> IF Truthy(raw.ValidationDate)
                                           THEN StrOf(raw.ValidationDate)
                                           ELSE None]]

\* UniformSOAPClient._serialize_code_list
serialize_code_list(raw) ==
    IF raw = Null THEN [exc |-> NoExc, value |-> NoRecord]
    ELSE LET items == IF raw.CodeList # Null
                      THEN ListOf(raw.CodeList.CnCode) ELSE << >>
         IN  [exc |-> NoExc,
              value |-> [list_name |-> raw.ListName,
                         list_text |-> raw.ListText,
                         codes |-> [i \in 1..Len(items) |->
                                       [code_value |-> items[i].CodeValue,
                                        code_text |-> items[i].CodeText,
                                        extra_text |-> items[i].ExtraText]]]]

\* UniformSOAPClient._serialize_app_id
serialize_app_id(app_id) ==
    IF app_id = Null THEN [exc |-> NoExc, value |-> NoRecord]
    ELSE [exc |-> NoExc,
          value |-> [key_value |-> app_id.ApplicationKeyValue,
                     reference_value |-> app_id.ReferenceValue]]

normalize_frame == <<zeep_client, logged_in, db, op, pc, sample_file, conn_status,
                     result, pending_exc, body_ret, outcome, calls, written,
                     sources_seen, logoff_failed, trace, scopes, env, callers,
                     request, test_client, report, store>>

\* get_application_by_reference / by_key: return self._serialize_application(result)
normalize_application ==
    /\ \E app \in RawApplications :
          norm' = [kind |-> "application", raw |-> app,
                   out |-> serialize_application(app)]
    /\ UNCHANGED normalize_frame

\* get_fee_lookup, after the remote call
normalize_fee_lookup ==
    /\ \E fees \in RawFeeSchedules :
          norm' = [kind |-> "fee schedule", raw |-> fees,
                   out |-> fee_lookup_record(fees)]
    /\ UNCHANGED normalize_frame

\* get_cn_code_list and the other code lookups
normalize_code_list ==
    /\ \E list \in RawCodeLists :
          norm' = [kind |-> "code list", raw |-> list,
                   out |-> serialize_code_list(list)]
    /\ UNCHANGED normalize_frame

\* submit_new_application / submit_renewal / submit_transfer
normalize_app_id ==
    /\ \E app_id \in RawAppIds :
          norm' = [kind |-> "application identifier", raw |-> app_id,
                   out |-> serialize_app_id(app_id)]
    /\ UNCHANGED normalize_frame

\* get_party_details_by_client, for each party of a result that is not None
normalize_party ==
    /\ \E party \in RawParties :
          norm' = [kind |-> "party", raw |-> party,
                   out |-> [exc |-> NoExc, value |-> serialize_party(party)]]
    /\ UNCHANGED normalize_frame

NextNormalize ==
    \/ normalize_application
    \/ normalize_fee_lookup
    \/ normalize_code_list
    \/ normalize_app_id
    \/ normalize_party

\* the serializers applied to raw results, one after the other
SpecNormalize == Init /\ [][NextNormalize]_vars

\* ------------------------------------------ the store, with all its rows

\* The premises and previous_actions tables as import_premises writes them:
\* the rows of premises by premises_ref (a row is its business_name), the
\* number of rows whose premises_ref is NULL (SQLite keeps NULL in a TEXT
\* PRIMARY KEY and never finds two NULLs equal), and the previous_actions
\* rows of each premises_ref in the order of their ids.
ActionTypes == {"visit"}

\* entries of a list given to import_premises: premisesRef may be missing,
\* previousActions may be missing, empty or hold rows
StoreEntries ==
    [premisesRef : Refs \cup {None}, businessName : Names,
     previousActions : Lists(ActionTypes)]

StoreLists == SeqsUpTo(StoreEntries, MaxLen)

\* NOT NULL constraint failed: previous_actions.premises_ref
NotNullFault == <<"NOT NULL constraint failed: previous_actions.premises_ref">>

\* import_premises, lines 161-221: the statements for one entry
import_entry(t, p) ==
    LET acts == ListOf(p.previousActions)
    IN  IF p.premisesRef = None
        THEN [tables |-> [t EXCEPT !.unkeyed = @ + 1],
              exc |-> IF Len(acts) > 0 THEN NotNullFault ELSE NoExc]
        ELSE [tables |-> [t EXCEPT !.premises[p.premisesRef] = p.businessName,
                                   !.actions[p.premisesRef] = acts],
              exc |-> NoExc]

\* import_premises, lines 161-221: the loop over the first n entries
RECURSIVE import_entries(_, _, _)
import_entries(t, list, n) ==
    IF n = 0 THEN [tables |-> t, exc |-> NoExc]
    ELSE LET before == import_entries(t, list, n - 1)
         IN  IF before.exc # NoExc THEN before
             ELSE import_entry(before.tables, list[n])

\* database.import_premises on the store with all its rows
import_premises_rows(st, list) ==
    LET done == import_entries(st.working, list, Len(list))
    IN  IF done.exc = NoExc
        THEN [committed |-> done.tables, working |-> done.tables,
              last |-> [done |-> TRUE, list |-> list, exc |-> NoExc,
                        count |-> Len(list)]]
        ELSE [committed |-> st.committed, working |-> done.tables,
              last |-> [done |-> TRUE, list |-> list, exc |-> done.exc,
                        count |-> 0]]

\* the entries of a list that carry no premisesRef
Unkeyed(list) == Cardinality({i \in 1..Len(list) : list[i].premisesRef = None})

store_frame == <<zeep_client, logged_in, db, op, pc, sample_file, conn_status,
                 result, pending_exc, body_ret, outcome, calls, written,
                 sources_seen, logoff_failed, trace, scopes, env, callers,
                 request, test_client, report, norm>>

\* a call of import_premises
store_import_premises ==
    /\ \E list \in StoreLists :
          /\ store.working.unkeyed + Unkeyed(list) <= MaxUnkeyed
          /\ store' = import_premises_rows(store, list)
    /\ UNCHANGED store_frame

\* create_inspection, complete_inspection, save_visit_sheet, save_owner_report:
\* a write to another table and db.commit() on the shared connection
store_other_write ==
    /\ store.committed # store.working
    /\ store' = [store EXCEPT !.committed = store.working]
    /\ UNCHANGED store_frame

NextStore ==
    \/ store_import_premises
    \/ store_other_write

\* calls of import_premises and of the other writers, in any order
SpecStore == Init /\ [][NextStore]_vars

\* ------------------------------------------------------------ properties

\* a call of sync_premises has ended / has returned its report
SyncEnded == op = "sync" /\ pc = "idle"
SyncReturned == SyncEnded /\ outcome.kind = "returned"

\* number of entries of the bundled dataset (none when the file is absent)
BundledSize(file) == IF file.state = "present" THEN Len(file.data) ELSE 0

\* the note holds the parts, in order and adjacent
Contains(note, parts) ==
    \E k \in 0..(Len(note) - Len(parts)) : SubSeq(note, k + 1, k + Len(parts)) = parts

\* the table holds, for each premisesRef of the list, the row of its last entry
StoreHolds(table, list) ==
    \A i \in 1..Len(list) :
        (\A j \in (i + 1)..Len(list) : list[j].premisesRef # list[i].premisesRef)
            => table[list[i].premisesRef] = list[i].businessName

Sources == {"uniform-soap-live", "sample-data-with-soap-available",
            "sample-data-fallback", "sample-data"}

\* C1: every call of sync_premises ends by returning a report with source,
\* count, timestamp and errors; none ends by raising.
C1_SyncNeverRaises ==
    SyncEnded =>
        /\ outcome.kind = "returned"
        /\ DOMAIN result = {"source", "count", "timestamp", "errors"}

C3_ZeroLiveRecordsFallsBack ==
    (SyncReturned /\ conn_status.connected /\ pending_exc = NoExc) =>
        /\ result.source = "sample-data-with-soap-available"
        /\ result.count = BundledSize(sample_file)
        /\ result.errors = << >>

\* C4: when the probe said "connected" and an exception left the session scope
\* (raised by logon or by anything in the body), the call returns a report
\* with source "sample-data-fallback" and a note naming that exception, and
\* the bundled dataset is in the store whenever it can be loaded.
C4_SessionErrorFallsBack ==
    (SyncEnded /\ pending_exc # NoExc) =>
        /\ outcome.kind = "returned"
        /\ result.source = "sample-data-fallback"
        /\ \E i \in 1..Len(result.errors) : Contains(result.errors[i], pending_exc)
        /\ (sample_file.state = "present") =>
              StoreHolds(db.committed, sample_file.data)

\* C5: a report with source "uniform-soap-live" is returned only when records
\* were written to the store, and its count is the number of records written.
C5_LiveOnlyWhenRecordsWritten ==
    (SyncReturned /\ result.source = "uniform-soap-live") =>
        /\ calls.import >= 1
        /\ written # {}
        /\ result.count = Cardinality(written)

\* C6: in every returned report, count is the number of premises rows the
\* call wrote to the store.
C6_CountIsRecordsWritten ==
    SyncReturned => result.count = Cardinality(written)

\* C7: the source of every returned report is one of the four outcomes,
\* never None; each of the four is returned by some call.
C7_SourceIsOneOfFour ==
    /\ SyncReturned => result.source \in Sources
    /\ sources_seen \subseteq Sources

C7_Witness == sources_seen = Sources

\* C8: once a session scope whose logon succeeded has been left, logoff was
\* called exactly once and the logged-in flag is false.
C8_ScopeExitLogsOff ==
    (calls.scopes = 1 /\ pc \notin {"body", "exit"}) =>
        /\ calls.logoff = 1
        /\ ~logged_in

\* C9: logoff never raises, and the step that leaves a session scope passes on
\* the body's own exception or result: a lookup returns the body's value or
\* raises the body's exception, and a sync whose body did not raise returns
\* its report unchanged.
C9_LogoffNeverChangesOutcome ==
    [][/\ (pc = "exit") =>
            /\ pending_exc' = pending_exc
            /\ (op = "lookup") =>
                  outcome' = IF pending_exc = NoExc THEN Returned(body_ret)
                             ELSE Raised(pending_exc)
            /\ (op = "sync" /\ pending_exc = NoExc) =>
                  (outcome' = Returned("report") /\ result' = result)
       /\ (pc = "idle" /\ pc' = "idle" /\ op' = "logoff") =>
            outcome' = Returned(None)]_vars

C9_Witness ==
    /\ op = "lookup"
    /\ pc = "idle"
    /\ outcome = Returned("record")
    /\ calls.remote_logoff = 1
    /\ logged_in

\* C10: whenever the client is idle a logon can be issued, and a logon the
\* remote accepts succeeds: the flag is set and the call returns True (or the
\* scope is entered), whatever happened on the client before.
C10_LogonAlwaysPossible ==
    /\ (pc = "idle") => ENABLED call_logon
    /\ (calls.accepted = 1 /\ calls.logoff = 0) =>
          /\ logged_in
          /\ IF op = "logon" THEN outcome = Returned("True")
             ELSE pc \in {"body", "exit"}

C10_Witness ==
    /\ op = "logon"
    /\ outcome = Returned("True")
    /\ calls.accepted = 1
    /\ logoff_failed

\* a caller is inside a session scope of the shared client
InScope(c) == callers[c].pc \in {"body", "exit"}

\* C11: no typed (data-fetching) remote call is issued while the client's
\* logged-in flag is false: every caller's remote call found the flag set.
C11_NoDataCallWithoutSession ==
    \A c \in Callers : callers[c].flag_at_call # "logged out"

\* C13: concurrent callers never share the one client session: no two callers
\* are inside a session scope of the shared client at once, and the logoff
\* that ends a caller's scope never clears the flag while another caller is
\* still inside its scope.
C13_CallersNeverShareSession ==
    [][/\ \A c, d \in Callers : (c # d) => ~(InScope(c)' /\ InScope(d)')
       /\ \A c, d \in Callers :
             (c # d /\ callers[c].pc = "exit" /\ callers'[c].pc = "idle"
                 /\ logged_in /\ ~logged_in') => ~InScope(d)]_vars

\* the round trips the step adds to the trace
NewTrips == SubSeq(trace', Len(trace) + 1, Len(trace'))

\* number of WSDL fetches among the round trips
Fetches(net) == Cardinality({i \in 1..Len(net) : net[i] = "wsdl"})

\* C12: a logon made while the logged-in flag is set (a second logon with no
\* logoff between, as in nested session scopes) issues no second remote
\* logon: it is rejected or does nothing; and while a scope is still open
\* after an inner scope ended, the session is still open.
C12_SecondLogonGuarded ==
    [][/\ (logged_in /\ op' \in {"logon", "session_enter"}) =>
             ~Issued(NewTrips, "LogonToConnector")
       /\ (op' = "session_exit" /\ scopes' > 0) => logged_in']_vars

\* the probe of the last call met a fault: the WSDL could not be had, or
\* GetUniformDatabaseAliases failed
ProbeFault == (~env.had_client /\ ~env.wsdl_ok) \/ env.reply.fault

C15_WsdlFetchedAtMostOnce == Fetches(trace) <= 1

\* C15, amended: the WSDL is fetched and parsed with success at most once:
\* once the handle is built it is kept and no later operation fetches the
\* WSDL again; an operation that finds no handle makes one fetch, also after
\* earlier fetches that failed.
C15_WsdlBuiltAtMostOnce ==
    [][/\ zeep_client => (zeep_client' /\ Fetches(NewTrips) = 0)
       /\ Fetches(NewTrips) <= 1]_vars

C15_Witness ==
    /\ zeep_client
    /\ Len(trace) = 4
    /\ trace[1] = "wsdl"
    /\ trace[2] = "wsdl"
    /\ Fetches(trace) = 2

\* the premisesRef values of a dataset
DatasetRefs(list) == refs_of(list, Len(list))

\* C16: a sync that wrote the dataset B replaced the stored premises: after
\* it the store holds the rows of B and no other row, whatever it held before.
C16_SyncReplacesStore ==
    (SyncReturned /\ calls.import >= 1) =>
        /\ StoreHolds(db.committed, sample_file.data)
        /\ \A r \in Refs :
              (r \notin DatasetRefs(sample_file.data)) => db.committed[r] = NoRow

\* C17: a row an import wrote before it failed (a row of the open
\* transaction) never becomes persistent, neither by a following sync nor by
\* another store operation committing: a step changes a committed row that was
\* pending only when it is a sync writing that row again from its own dataset.
C17_FailedWriteNeverPersists ==
    [][\A r \in Refs :
          (db.working[r] # db.committed[r] /\ db'.committed[r] # db.committed[r])
              => (op' = "sync" /\ r \in DatasetRefs(sample_file'.data))]_vars

\* the request has been answered with a step report
TestReported == op = "test" /\ pc = "idle" /\ report.status = 200

\* C18: every step report lists the three steps, in order, and every step
\* after a failed one is marked skipped.
C18_LaterStepsMarkedSkipped ==
    TestReported =>
        /\ Len(report.body.steps) = 3
        /\ \A i \in 1..3 : report.body.steps[i].name = StepNames[i]
        /\ \A i, j \in 1..3 :
              (i < j /\ report.body.steps[i].passed = PyFalse)
                  => report.body.steps[j].passed = None

\* the round trips issued when step i was the last one run, for a step that
\* failed (the authentication step fails at the logon call)
TripsThrough(i) == SubSeq(TestOrder, 1, i)

\* C19: the steps run in the order reachability, alias enumeration,
\* authentication: the round trips are a prefix of that order, the report
\* lists the steps in that order, and a step that failed is the last step
\* run: no round trip of a later step follows its own.
C19_StopsAtFirstFailure ==
    (op = "test" /\ report.status # 400) =>
        /\ trace = SubSeq(TestOrder, 1, Len(trace))
        /\ \A i \in 1..Len(report.body.steps) :
              /\ report.body.steps[i].name = StepNames[i]
              /\ (report.body.steps[i].passed = PyFalse) =>
                    /\ i = Len(report.body.steps)
                    /\ trace = TripsThrough(i)
                    /\ pc = "idle"

C19_Witness ==
    /\ TestReported
    /\ Len(report.body.steps) = 2
    /\ report.body.steps[2].passed = PyFalse
    /\ trace = <<"wsdl", "GetUniformDatabaseAliases">>
    /\ credentials_given(request)

\* C20: a request that does not give all of database id, username and
\* password is answered with the authentication step marked skipped (passed
\* None); no logon call was issued, and success is decided by the steps that
\* ran.
C20_NoCredentialsSkipsAuthentication ==
    (TestReported /\ ~credentials_given(request)) =>
        /\ \E i \in 1..Len(report.body.steps) :
              /\ report.body.steps[i].name = "Authentication"
              /\ report.body.steps[i].passed = None
        /\ ~Issued(trace, "LogonToConnector")
        /\ report.body.success = AllPassed(report.body.steps)

\* the remote reported the reference as not existing
NotFound(answer) ==
    ~answer.fault /\ (answer.null \/ answer.LicenceExists = PyFalse)

Normalized(kind) == norm # NoNorm /\ norm.kind = kind /\ norm.out.exc = NoExc

\* C22: normalizing an application, a fee schedule, a code list, a party or
\* an application identifier never fails, whatever optional fields are
\* missing; only a null top-level result is special, and it gives None.
C22_NormalizingNeverFails ==
    norm # NoNorm =>
        /\ norm.out.exc = NoExc
        /\ norm.kind # "party" =>
              (norm.raw = Null <=> norm.out.value = NoRecord)

\* a fee schedule with a fee line whose amount is missing was normalized
C22_Witness ==
    /\ norm # NoNorm
    /\ norm.kind = "fee schedule"
    /\ norm.raw # Null
    /\ norm.raw.LicenceFees # Null
    /\ \E i \in 1..Len(ListOf(norm.raw.LicenceFees.LicenceFeeDetail)) :
          ListOf(norm.raw.LicenceFees.LicenceFeeDetail)[i].Fee = None

\* C23: a field of a normalized application is None exactly when the source
\* field is absent, and holds the provided value otherwise, a numeric value of
\* 0 included (total cost, payment amounts, activity capacity).
C23_OnlyAbsentFieldsAreNone ==
    (Normalized("application") /\ norm.raw # Null) =>
        LET app == norm.raw
            out == norm.out.value
        IN  /\ out.application_type = app.ApplicationType
            /\ app.Licence # Null =>
                  /\ out.licence.licence_type = app.Licence.LicenceType
                  /\ out.licence.date_received =
                        IF app.Licence.DateReceived = None THEN None
                        ELSE StrOf(app.Licence.DateReceived)
                  /\ out.licence.total_cost =
                        IF app.Licence.TotalCost = None THEN None
                        ELSE Float(app.Licence.TotalCost)
            /\ app.Payments # Null =>
                  \A i \in 1..Len(ListOf(app.Payments.Payment)) :
                      LET pay == ListOf(app.Payments.Payment)[i]
                      IN  /\ out.payments[i].payment_due =
                                IF pay.PaymentDue = None THEN None
                                ELSE Float(pay.PaymentDue)
                          /\ out.payments[i].paid =
                                IF pay.Paid = None THEN None ELSE Float(pay.Paid)
            /\ app.Activities # Null =>
                  \A i \in 1..Len(ListOf(app.Activities.Activity)) :
                      LET act == ListOf(app.Activities.Activity)[i]
                      IN  /\ out.activities[i].activity_type = act.ActivityType
                          /\ out.activities[i].capacity =
                                IF act.Capacity = None THEN None
                                ELSE Float(act.Capacity)

\* an application with an activity of capacity 0 was normalized
C23_Witness ==
    /\ Normalized("application")
    /\ norm.raw # Null
    /\ norm.raw.Activities # Null
    /\ \E i \in 1..Len(ListOf(norm.raw.Activities.Activity)) :
          ListOf(norm.raw.Activities.Activity)[i].Capacity = "0"

\* the repeated groups of a normalized application
Groups == {"applicants", "activities", "payments", "li_xtras"}

\* The groups that are always in the result: contact details, fee lines, codes.
InnerGroupsAreSequences ==
    /\ (Normalized("fee schedule") /\ norm.raw # Null) =>
          (norm.raw.LicenceFees = Null => norm.out.value.fees = << >>)
    /\ (Normalized("code list") /\ norm.raw # Null) =>
          (norm.raw.CodeList = Null => norm.out.value.codes = << >>)
    /\ Normalized("party") =>
          (norm.raw.ContactDetails = Null => norm.out.value.contact_details = << >>)

\* C24: a repeated group that is absent in the source is in the result as an
\* empty sequence: never None, never a missing key.
C24_AbsentGroupIsEmptySequence ==
    /\ (Normalized("application") /\ norm.raw # Null) =>
          /\ Groups \subseteq DOMAIN norm.out.value
          /\ norm.raw.Applicants = Null => norm.out.value["applicants"] = << >>
          /\ norm.raw.Activities = Null => norm.out.value["activities"] = << >>
          /\ norm.raw.Payments = Null => norm.out.value["payments"] = << >>
          /\ norm.raw.LiXtras = Null => norm.out.value["li_xtras"] = << >>
          /\ "applicants" \in DOMAIN norm.out.value =>
                \A i \in 1..Len(norm.out.value.applicants) :
                    ListOf(norm.raw.Applicants.Applicant)[i].ContactDetails = Null =>
                        norm.out.value.applicants[i].contact_details = << >>
    /\ InnerGroupsAreSequences

\* an application without its activities was normalized
C24_Witness ==
    /\ Normalized("application")
    /\ norm.raw # Null
    /\ norm.raw.Activities = Null

\* the step is a call of import_premises with the list of the call before
\* it, both calls returning
ImportedAgain ==
    /\ store.last.done
    /\ store.last.exc = NoExc
    /\ store' = import_premises_rows(store, store.last.list)

\* C25: importing a list a second time leaves the premises rows and the
\* previous-action rows of each premises as the first import left them, and
\* returns the same count, for every list and every store.
C25_ImportIsIdempotent ==
    [][ImportedAgain =>
          /\ store'.working = store.working
          /\ store'.committed = store.committed
          /\ store'.last.count = store.last.count]_vars

\* a list with an entry that has no premisesRef was imported
C25_Witness ==
    /\ store.last.done
    /\ store.last.exc = NoExc
    /\ Unkeyed(store.last.list) > 0

\* Importing again a list whose entries all carry a premisesRef changes nothing.
KeyedImportIsIdempotent ==
    [][(ImportedAgain /\ Unkeyed(store.last.list) = 0) =>
          /\ store'.working = store.working
          /\ store'.committed = store.committed
          /\ store'.last.count = store.last.count]_vars


\* C26: sync_premises opens a session only after the probe reported the
\* endpoint reachable: a call whose probe said "not connected" issues no logon
\* and no logoff (the sync makes no data-fetching call at all), and a call
\* whose probe said "connected" attempts exactly one logon.
C26_SessionOnlyAfterReachableProbe ==
    /\ (op = "sync" /\ pc \in {"enter", "body", "exit"}) => conn_status.connected
    /\ (op = "sync" /\ pc # "enter") =>
          IF conn_status.connected
          THEN calls.logon = 1
          ELSE calls.logon = 0 /\ calls.logoff = 0 /\ calls.remote_logoff = 0

\* a sync whose probe said "not connected" ended, and so did one whose probe
\* said "connected"
C26_Witness ==
    /\ SyncEnded
    /\ ~conn_status.connected
    /\ "sample-data-with-soap-available" \in sources_seen

\* C28: each call of sync_premises invokes the loader of the bundled dataset
\* and import_premises at most once, on every path, the one where an error
\* is raised inside the session scope included.
C28_LoadsAndWritesAtMostOnce ==
    (op = "sync") => (calls.load <= 1 /\ calls.import <= 1)

\* a sync ended whose session body raised
C28_Witness ==
    /\ SyncEnded
    /\ conn_status.connected
    /\ calls.scopes = 1
    /\ pending_exc # NoExc

\* C29: a report returned by sync_premises has at most one note in errors, and
\* none exactly when its source is "sample-data-with-soap-available"; a report
\* whose source is "uniform-soap-live" has count 0 and the single note
\* "No sample data found".
C29_NotesMatchSource ==
    SyncReturned =>
        /\ Len(result.errors) <= 1
        /\ (result.errors = << >>) <=>
              (result.source = "sample-data-with-soap-available")
        /\ (result.source = "uniform-soap-live") =>
              (result.count = 0 /\ result.errors = <<NoDataNote>>)

\* a report with source "uniform-soap-live" was returned
C29_Witness ==
    /\ SyncReturned
    /\ result.source = "uniform-soap-live"
    /\ calls.scopes = 1


\* C27: the logged-in flag changes only at three events: a logon the remote
\* accepts sets it, a logon the remote rejects clears it, a logoff that
\* completes clears it; a logon or logoff that fails on the way, the probe,
\* the login-status query and every typed operation leave it as it was.  With
\* the flag false at the start, the flag is then true exactly when the last
\* accepted logon was not followed by a completed logoff or a rejected logon.
C27_FlagFollowsSessionEvents ==
    [][logged_in' =
          IF env'.call = "logon" /\ env'.event = "accepted" THEN TRUE
          ELSE IF env'.call = "logon" /\ env'.event = "rejected" THEN FALSE
          ELSE IF env'.call = "logoff" /\ env'.event = "completed" THEN FALSE
          ELSE logged_in]_vars

\* a logoff failed on the way while the client was logged in
C27_Witness ==
    /\ env.call = "logoff"
    /\ env.event = "failed"
    /\ logged_in


\* C30: a connection-test report lists one to three steps, a prefix of (WSDL
\* Reachability, Database Aliases, Authentication); only the last listed step
\* can have passed = False; success is true exactly when all three are
\* listed, the first two passed and authentication passed or was skipped.
C30_ReportIsPrefixOfSteps ==
    TestReported =>
        LET steps == report.body.steps
        IN  /\ Len(steps) \in 1..3
            /\ \A i \in 1..Len(steps) :
                  /\ steps[i].name = StepNames[i]
                  /\ steps[i].passed \in {PyTrue, PyFalse, None}
                  /\ (steps[i].passed = PyFalse) => i = Len(steps)
            /\ report.body.success <=>
                  /\ Len(steps) = 3
                  /\ steps[1].passed = PyTrue
                  /\ steps[2].passed = PyTrue
                  /\ steps[3].passed \in {PyTrue, None}

\* a test without credentials was reported a success, authentication skipped
C30_Witness ==
    /\ TestReported
    /\ Len(report.body.steps) = 3
    /\ report.body.steps[3].passed = None
    /\ report.body.success


====
